---- MODULE Spec2Model ----
(***************************************************************************)
(* Resume analysis pipeline (src/ver5.py): the profile catalog, sentence   *)
(* classification, skill extraction, profile scoring, the missing-skill    *)
(* list, the charts and the report; the report writers of src/ver2.py and  *)
(* src/ver3.py beside it.  Python str values are TLA+ strings, Python      *)
(* lists are sequences, Python sets are sets, and a dict is the sequence   *)
(* of its entries in insertion order.                                      *)
(***************************************************************************)
EXTENDS Integers, Sequences, FiniteSets, TLC

VARIABLES pc, definitions, job_profiles, sents, text, entities,
          candidate_skills, best_profile, profile_scores, missing_skills,
          version,    \* the script that runs: "ver2", "ver3" or "ver5"
          strengths,  \* strengths of analyze_resume
          lookups,    \* the keys job_profiles.get was called with, in order
          files,      \* the files on disk: path -> content
          report,     \* what generate_report has put together so far
          other       \* a second run of main on the same machine

vars == <<pc, definitions, job_profiles, sents, text, entities,
          candidate_skills, best_profile, profile_scores, missing_skills,
          version, strengths, lookups, files, report, other>>

-----------------------------------------------------------------------------
(* Bounds of the model.                                                    *)

\* Largest number of sentences of a document.
MaxSents == 2

\* Largest number of entries written in a catalog literal other than the
\* shipped one.
MaxDefs == 2

\* Largest number of profiles of a catalog a report is written for.
MaxProfiles == 80

-----------------------------------------------------------------------------
(* Python values.                                                          *)

\* None is no str: it equals no dict key and no profile name.
None == [type |-> "NoneType"]

Str(s) == [type |-> "str", value |-> s]

UpperCase == "ABCDEFGHIJKLMNOPQRSTUVWXYZ"

LowerCase == "abcdefghijklmnopqrstuvwxyz"

Digits == "0123456789"

Chars(s) == {SubSeq(s, i, i) : i \in 1..Len(s)}

\* str.lower() of one character: the table of the letters it changes.
LowerTable ==
    [c \in Chars(UpperCase) |->
        LET i == CHOOSE k \in 1..Len(UpperCase) : SubSeq(UpperCase, k, k) = c
        IN  SubSeq(LowerCase, i, i)]

LowerChar(c) == IF c \in DOMAIN LowerTable THEN LowerTable[c] ELSE c

\* str.lower(): every character lower-cased, the string taken half by half.
RECURSIVE Lower(_)
Lower(s) ==
    IF Len(s) <= 1 THEN LowerChar(s)
    ELSE LET half == Len(s) \div 2
         IN  Lower(SubSeq(s, 1, half)) \o Lower(SubSeq(s, half + 1, Len(s)))

\* needle in hay
Contains(hay, needle) ==
    \E i \in 1..(Len(hay) - Len(needle) + 1) :
        SubSeq(hay, i, i + Len(needle) - 1) = needle

Whitespace == {" ", "\n", "\t", "\r"}

\* str.strip()
RECURSIVE LStrip(_)
LStrip(s) ==
    IF s # "" /\ SubSeq(s, 1, 1) \in Whitespace
    THEN LStrip(SubSeq(s, 2, Len(s)))
    ELSE s

RECURSIVE RStrip(_)
RStrip(s) ==
    IF s # "" /\ SubSeq(s, Len(s), Len(s)) \in Whitespace
    THEN RStrip(SubSeq(s, 1, Len(s) - 1))
    ELSE s

Strip(s) == RStrip(LStrip(s))

\* The characters the regular expression class \w matches.
WordChars == Chars(UpperCase) \cup Chars(LowerCase) \cup Chars(Digits) \cup {"_"}

IsWordChar(c) == c \in WordChars

\* The character of s at position i.
CharAt(s, i) == SubSeq(s, i, i)

\* The positions of s where \b\w+ can start to match: a word character with
\* no word character before it.
WordStarts(s) ==
    {i \in 1..Len(s) : IsWordChar(CharAt(s, i)) /\ (i = 1 \/ ~IsWordChar(CharAt(s, i - 1)))}

\* Where the greedy \w+ that starts at i stops: the last position of the run
\* of word characters, where the closing \b holds.
WordEnd(s, i) ==
    CHOOSE j \in i..Len(s) :
        /\ \A k \in i..j : IsWordChar(CharAt(s, k))
        /\ j = Len(s) \/ ~IsWordChar(CharAt(s, j + 1))

\* re.findall(r'\b\w+\b', s): the matches, left to right.
FindAllWords(s) ==
    LET starts == WordStarts(s)
        nth(n) == CHOOSE i \in starts : Cardinality({k \in starts : k <= i}) = n
    IN  [n \in 1..Cardinality(starts) |-> SubSeq(s, nth(n), WordEnd(s, nth(n)))]

Range(q) == {q[i] : i \in 1..Len(q)}

-----------------------------------------------------------------------------
(* The profile catalog.                                                    *)

\* One key: value pair of a dict.
Entry(k, v) == [key |-> k, value |-> v]

\* The key: value pairs written in the job_profiles literal, top to bottom.
ShippedDefinitions == <<
    Entry("Software Developer", <<"Python", "Java", "C++", "Git", "Data Structures", "Algorithms">>),
    Entry("AI Engineer", <<"Python", "Machine Learning", "Deep Learning", "TensorFlow", "PyTorch", "NLP">>),
    Entry("SQL Developer", <<"SQL", "Database Management", "ETL", "Data Warehousing", "Oracle", "MySQL">>),
    Entry("Data Scientist", <<"Python", "R", "Statistics", "Data Analysis", "Machine Learning", "Pandas">>),
    Entry("Web Developer", <<"HTML", "CSS", "JavaScript", "React", "Node.js", "Git">>),
    Entry("DevOps Engineer", <<"CI/CD", "Docker", "Kubernetes", "AWS", "Linux", "Shell Scripting">>),
    Entry("Mobile App Developer", <<"Java", "Kotlin", "Swift", "Android", "iOS", "Flutter">>),
    Entry("Cybersecurity Analyst", <<"Networking", "Firewalls", "Penetration Testing", "Cryptography", "Linux", "SIEM">>) >>

\* Entries a catalog literal other than the shipped one is written from: a
\* three-skill profile, a second profile, a repeated name and an empty list.
DefinitionPool == {
    Entry("Software Developer", <<"Python", "Java", "Git">>),
    Entry("AI Engineer", <<"Python", "PyTorch">>),
    Entry("Software Developer", <<"Kotlin">>),
    Entry("Tester", <<>>) }

\* The catalog literals the build is run on: the shipped one and every
\* literal of up to MaxDefs entries of the pool.
CatalogLiterals ==
    {ShippedDefinitions} \cup UNION {[1..n -> DefinitionPool] : n \in 1..MaxDefs}

\* list(d.keys())
Keys(d) == [i \in 1..Len(d) |-> d[i].key]

HasKey(d, k) == \E i \in 1..Len(d) : d[i].key = k

\* d[k] for a key the dict holds.
DictAt(d, k) == d[CHOOSE i \in 1..Len(d) : d[i].key = k].value

\* DictSet without the look-up of the key: every pair is appended.
DictSetAppendOnly(d, k, v) == Append(d, Entry(k, v))

\* d[k] = v: a new key is appended, an existing key keeps its position and
\* takes the new value.
DictSet(d, k, v) ==
    IF HasKey(d, k)
    THEN [i \in 1..Len(d) |-> IF d[i].key = k THEN Entry(k, v) ELSE d[i]]
    ELSE Append(d, Entry(k, v))

\* d.get(key, default); key is a Python value (None or a str).
DictGet(d, key, default) ==
    IF key.type = "str" /\ HasKey(d, key.value)
    THEN DictAt(d, key.value)
    ELSE default

\* Evaluation of a dict display {k1: v1, k2: v2, ...}: the pairs are stored
\* left to right; nothing is validated and nothing is raised.
RECURSIVE DictLiteral(_)
DictLiteral(defs) ==
    IF defs = <<>> THEN <<>>
    ELSE LET n == Len(defs)
         IN  DictSet(DictLiteral(SubSeq(defs, 1, n - 1)), defs[n].key, defs[n].value)

-----------------------------------------------------------------------------
(* Documents: what extract_text_from_pdf returns and how the spaCy         *)
(* pipeline splits it.  Both are outside the repository; a document is a   *)
(* sequence of sentences and its text is the sentences joined by a blank.  *)

SentencePool == {
    "I have experience in education systems.",
    "skilled in C++ and Python",
    "Built JavaScript apps",
    "EDUCATION: Bachelor in Statistics\n",
    "Networking basics",
    "Work Experience: Java and Kotlin",
    "Machine Learning with PyTorch",
    "5 years of experience with CI/CD" }

Documents == UNION {[1..n -> SentencePool] : n \in 0..MaxSents}

RECURSIVE JoinText(_)
JoinText(doc) ==
    IF doc = <<>> THEN ""
    ELSE IF Len(doc) = 1 THEN doc[1]
    ELSE doc[1] \o " " \o JoinText(Tail(doc))

\* doc.sents of nlp(t): a split of t into its sentences.
Segmentations(t) == {doc \in Documents : JoinText(doc) = t}

-----------------------------------------------------------------------------
(* extract_entities                                                        *)

\* SentenceClass with the two tests in the other order.
SentenceClassExperienceFirst(sent) ==
    LET sent_text == Lower(sent)
    IN  IF Contains(sent_text, "experience") \/ Contains(sent_text, "work")
        THEN "experience"
        ELSE IF Contains(sent_text, "education") THEN "education"
        ELSE "none"

\* SentenceClass without the test for "work".
SentenceClassWithoutWork(sent) ==
    LET sent_text == Lower(sent)
    IN  IF Contains(sent_text, "education") THEN "education"
        ELSE IF Contains(sent_text, "experience") THEN "experience"
        ELSE "none"

\* The if / elif of the sentence loop: the list a sentence is appended to.
SentenceClass(sent) ==
    LET sent_text == Lower(sent)
    IN  IF Contains(sent_text, "education") THEN "education"
        ELSE IF Contains(sent_text, "experience") \/ Contains(sent_text, "work")
             THEN "experience"
        ELSE "none"

\* The sentence loop, from the first sentence on.
RECURSIVE ClassifySentences(_, _)
ClassifySentences(ss, ent) ==
    IF ss = <<>> THEN ent
    ELSE LET sent == Head(ss)
             class == SentenceClass(sent)
             next == IF class = "none" THEN ent
                     ELSE [ent EXCEPT ![class] = Append(@, Strip(sent))]
         IN  ClassifySentences(Tail(ss), next)

\* FoundSkills by containment: every substring of the lower-cased text.
FoundSkillsBySubstring(t) ==
    LET low == Lower(t)
    IN  {SubSeq(low, i, j) : i \in 1..Len(low), j \in 1..Len(low)} \ {""}

\* set(re.findall(r'\b\w+\b', text.lower()))
FoundSkills(t) == Range(FindAllWords(Lower(t)))

\* set([skill.lower() for skills in job_profiles.values() for skill in skills])
AllSkills(catalog) ==
    UNION {{Lower(catalog[i].value[j]) : j \in 1..Len(catalog[i].value)} : i \in 1..Len(catalog)}

MatchedSkills(t, catalog) == AllSkills(catalog) \cap FoundSkills(t)

\* list(a set): its elements once each, in an order the interpreter picks.
RECURSIVE ListOfSet(_)
ListOfSet(S) ==
    IF S = {} THEN {<<>>}
    ELSE UNION {{<<x>> \o q : q \in ListOfSet(S \ {x})} : x \in S}

-----------------------------------------------------------------------------
(* detect_job_profile and analyze_resume                                   *)

\* ProfileScore without lower(): the catalog's casing is compared.
RECURSIVE ProfileScoreCaseSensitive(_, _)
ProfileScoreCaseSensitive(required_skills, cs) ==
    IF required_skills = <<>> THEN 0
    ELSE (IF Head(required_skills) \in cs THEN 1 ELSE 0)
         + ProfileScoreCaseSensitive(Tail(required_skills), cs)

\* ProfileScore that counts a required skill only while no other skill is
\* detected beside the required ones.
RECURSIVE ProfileScoreExactOnly(_, _)
ProfileScoreExactOnly(required_skills, cs) ==
    IF required_skills = <<>> THEN 0
    ELSE (IF Lower(Head(required_skills)) \in cs /\ Cardinality(cs) <= 1 THEN 1 ELSE 0)
         + ProfileScoreExactOnly(Tail(required_skills), cs)

\* sum(1 for skill in required_skills if skill.lower() in candidate_skills)
RECURSIVE ProfileScore(_, _)
ProfileScore(required_skills, cs) ==
    IF required_skills = <<>> THEN 0
    ELSE (IF Lower(Head(required_skills)) \in cs THEN 1 ELSE 0)
         + ProfileScore(Tail(required_skills), cs)

\* {profile: 0 for profile in job_profiles.keys()}
RECURSIVE ZeroScores(_)
ZeroScores(catalog) ==
    IF catalog = <<>> THEN <<>>
    ELSE LET n == Len(catalog)
         IN  DictSet(ZeroScores(SubSeq(catalog, 1, n - 1)), catalog[n].key, 0)

\* The loop over job_profiles.items(), its first n rounds done.
RECURSIVE ScoreLoop(_, _, _)
ScoreLoop(catalog, cs, n) ==
    IF n = 0 THEN ZeroScores(catalog)
    ELSE DictSet(ScoreLoop(catalog, cs, n - 1), catalog[n].key,
                 ProfileScore(catalog[n].value, cs))

\* ProfileScores that keeps only the profiles with a match.
ProfileScoresMatchedOnly(catalog, cs) ==
    SelectSeq(ScoreLoop(catalog, cs, Len(catalog)), LAMBDA e : e.value > 0)

ProfileScores(catalog, cs) == ScoreLoop(catalog, cs, Len(catalog))

\* any(profile_scores.values())
AnyValue(scores) == \E i \in 1..Len(scores) : scores[i].value # 0

\* MaxKey that lets a later key replace an equal earlier one.
RECURSIVE MaxKeyLast(_, _)
MaxKeyLast(d, n) ==
    IF n = 1 THEN d[1].key
    ELSE LET best == MaxKeyLast(d, n - 1)
         IN  IF d[n].value >= DictAt(d, best) THEN d[n].key ELSE best

\* max(d, key=d.get) over the first n keys: the first key whose value no
\* earlier or later key exceeds.
RECURSIVE MaxKey(_, _)
MaxKey(d, n) ==
    IF n = 1 THEN d[1].key
    ELSE LET best == MaxKey(d, n - 1)
         IN  IF d[n].value > DictAt(d, best) THEN d[n].key ELSE best

\* BestProfile without the any() guard.
BestProfileUnguarded(scores) == Str(MaxKey(scores, Len(scores)))

BestProfile(scores) ==
    IF AnyValue(scores) THEN Str(MaxKey(scores, Len(scores))) ELSE None

\* MissingSkills without lower().
MissingSkillsCaseSensitive(required_skills, cs) ==
    SelectSeq(required_skills, LAMBDA skill : skill \notin cs)

\* [skill for skill in required_skills if skill.lower() not in candidate_skills]
MissingSkills(required_skills, cs) ==
    SelectSeq(required_skills, LAMBDA skill : Lower(skill) \notin cs)

NoEntities == [education |-> <<>>, experience |-> <<>>, skills |-> <<>>]

\* "Bachelor's" if any("bachelor" in edu.lower() for edu in education) else None
EducationLevel(education) ==
    IF \E i \in 1..Len(education) : Contains(Lower(education[i]), "bachelor")
    THEN Str("Bachelor's")
    ELSE None

\* strengths of analyze_resume.  "skills" is list(candidate_skills): the
\* interpreter picks its order, and its readers take its length, its truth
\* value and its join, so the list is kept as the set it lists.
Strengths(cs, education) ==
    [skills |-> cs, education_level |-> EducationLevel(education)]

NoStrengths == [skills |-> {}, education_level |-> None]

\* What analyze_resume returns; weaknesses is {"missing_skills": missing_skills}.
Analysis(ent, str, missing, best, scores) ==
    [entities |-> ent, strengths |-> str, missing_skills |-> missing,
     best_profile |-> best, profile_scores |-> scores]

\* analyze_resume(text) in one piece, for the sentences doc and the order
\* matched_skills of the skills found.
AnalyzeText(doc, matched_skills, catalog) ==
    LET ent == [ClassifySentences(doc, NoEntities) EXCEPT !.skills = @ \o matched_skills]
        cs == {Lower(ent.skills[i]) : i \in 1..Len(ent.skills)}
        scores == ProfileScores(catalog, cs)
        best == BestProfile(scores)
    IN  Analysis(ent, Strengths(cs, ent.education),
                 MissingSkills(DictGet(catalog, best, <<>>), cs), best, scores)

-----------------------------------------------------------------------------
(* Formatting.                                                             *)

\* f"{value}" of None or a str.
Format(value) == IF value.type = "NoneType" THEN "None" ELSE value.value

\* sep.join(list)
RECURSIVE Join(_, _)
Join(list, sep) ==
    IF list = <<>> THEN ""
    ELSE IF Len(list) = 1 THEN list[1]
    ELSE list[1] \o sep \o Join(Tail(list), sep)

\* char * n
RECURSIVE Repeat(_, _)
Repeat(char, n) == IF n = 0 THEN "" ELSE char \o Repeat(char, n - 1)

\* A piece of report text: the characters written and, when the piece ends
\* with ', '.join(strengths['skills']), the skills joined.
Text(s) == [text |-> s, joined |-> {}]

\* f"- Skills Mentioned: {', '.join(skills) if skills else 'None found'}"
SkillsMentioned(skills) ==
    IF skills # {} THEN [text |-> "- Skills Mentioned: ", joined |-> skills]
    ELSE Text("- Skills Mentioned: None found")

\* f"- Education Level: {education_level or 'Not specified'}"
EducationLine(education_level) ==
    Text("- Education Level: " \o
         (IF education_level = None THEN "Not specified" ELSE education_level.value))

\* f"- Missing Skills for {best_profile} Profile: {', '.join(missing) if missing else 'None'}"
MissingLine(best, missing) ==
    Text("- Missing Skills for " \o Format(best) \o " Profile: " \o
         (IF missing # <<>> THEN Join(missing, ", ") ELSE "None"))

\* ScoreLines from the last item of profile_scores to the first.
ScoreLinesReversed(scores) ==
    [i \in 1..Len(scores) |->
        Text("- " \o scores[Len(scores) + 1 - i].key \o ": "
             \o ToString(scores[Len(scores) + 1 - i].value) \o " matching skills")]

\* f"- {profile}: {score} matching skills" for every item of profile_scores
ScoreLines(scores) ==
    [i \in 1..Len(scores) |->
        Text("- " \o scores[i].key \o ": " \o ToString(scores[i].value) \o " matching skills")]

\* The k-th smallest element of a set of numbers.
Kth(S, k) == CHOOSE b \in S : Cardinality({c \in S : c < b}) = k - 1

\* s.split('\n')
Split(s) ==
    LET newlines == {i \in 1..Len(s) : CharAt(s, i) = "\n"}
        starts == {0} \cup newlines
        ends == newlines \cup {Len(s) + 1}
    IN  [k \in 1..Cardinality(starts) |->
            SubSeq(s, Kth(starts, k) + 1, Kth(ends, k) - 1)]

\* The lines of a piece of text; the joined skills hold no line break and
\* stay on the last line.
SplitText(t) ==
    LET lines == Split(t.text)
    IN  [k \in 1..Len(lines) |->
            [text |-> lines[k], joined |-> IF k = Len(lines) THEN t.joined ELSE {}]]

-----------------------------------------------------------------------------
(* Files.  The disk is a function from the paths that exist to their       *)
(* contents; a content records the run that wrote it.                      *)

NoFiles == [path \in {} |-> None]

\* open(path, "w") and a write, or savefig(path), or Canvas.save().
WriteFile(fs, path, content) ==
    [p \in DOMAIN fs \cup {path} |-> IF p = path THEN content ELSE fs[p]]

\* os.path.join(dir, name)
PathJoin(dir, name) == IF dir = "" THEN name ELSE dir \o "/" \o name

\* output_dir of main
OutputDir == "resume_analysis_output"

SkillsPng == "skills_visualization.png"

ProfileMatchPng == "profile_match_visualization.png"

SkillsAnalysisPng == "skills_analysis_visualization.png"

ImageNames == {SkillsPng, ProfileMatchPng, SkillsAnalysisPng}

ReportPdf == "resume_analysis_report.pdf"

ReportTxt == "resume_analysis_report.txt"

-----------------------------------------------------------------------------
(* save_visualizations                                                     *)

\* Counter(list): every element with its number of occurrences, in the
\* order of first occurrence.
RECURSIVE Counter(_)
Counter(list) ==
    IF list = <<>> THEN <<>>
    ELSE LET n == Len(list)
             counted == Counter(SubSeq(list, 1, n - 1))
             seen == IF HasKey(counted, list[n]) THEN DictAt(counted, list[n]) ELSE 0
         IN  DictSet(counted, list[n], seen + 1)

\* The bar chart of the skills found.
SkillsChart(run, a) ==
    [by |-> run, title |-> "Skills Mentioned in Resume",
     data |-> Counter(a.entities.skills)]

\* The bar chart of the profile scores.
ProfileMatchChart(run, a) ==
    [by |-> run, title |-> "Profile Match Based on Skills", data |-> a.profile_scores]

\* The pie of missing and present skills.
SkillsAnalysisChart(run, a) ==
    [by |-> run, title |-> "Skills Analysis for Best Profile: " \o Format(a.best_profile),
     data |-> <<Len(a.missing_skills), Cardinality(a.strengths.skills)>>]

\* The disk after save_visualizations: each chart is saved under its own
\* condition, and nothing is written for a chart that is skipped.
SavedCharts(fs, dir, run, a) ==
    LET fs1 == IF Counter(a.entities.skills) # <<>>
               THEN WriteFile(fs, PathJoin(dir, SkillsPng), SkillsChart(run, a))
               ELSE fs
        fs2 == IF AnyValue(a.profile_scores)
               THEN WriteFile(fs1, PathJoin(dir, ProfileMatchPng), ProfileMatchChart(run, a))
               ELSE fs1
        missing_skills_count == Len(a.missing_skills)
    IN  IF missing_skills_count > 0 \/ a.strengths.skills # {}
        THEN WriteFile(fs2, PathJoin(dir, SkillsAnalysisPng), SkillsAnalysisChart(run, a))
        ELSE fs2

-----------------------------------------------------------------------------
(* generate_report of src/ver5.py.  Lengths are in tenths of an inch.      *)

\* inch of reportlab.lib.units
Inch == 10

\* A new canvas: nothing drawn, on its first page, no exception raised.
NewCanvas == [ops |-> <<>>, page |-> 1, y |-> 10 * Inch, raised |-> None]

\* c.drawString(x, y, line) on the current page.
DrawString(c, x, y, line) ==
    [c EXCEPT !.ops = Append(@, [op |-> "drawString", page |-> c.page,
                                 x |-> x, y |-> y, line |-> line, via |-> "direct"])]

\* c.showPage()
ShowPage(c) == [c EXCEPT !.page = @ + 1]

\* AddLines without the test of y_position: no new page is begun.
RECURSIVE AddLinesOnOnePage(_, _)
AddLinesOnOnePage(c, lines) ==
    IF c.raised # None \/ lines = <<>> THEN c
    ELSE LET drawn == [c EXCEPT !.ops = Append(@,
                          [op |-> "drawString", page |-> c.page, x |-> 1 * Inch,
                           y |-> c.y, line |-> Head(lines),
                           via |-> "add_text_with_new_page"])]
         IN  AddLinesOnOnePage([drawn EXCEPT !.y = @ - (2 * Inch) \div 10], Tail(lines))

\* The loop of add_text_with_new_page over the lines of one text.  Nothing
\* is drawn once an exception is up.
RECURSIVE AddLines(_, _)
AddLines(c, lines) ==
    IF c.raised # None \/ lines = <<>> THEN c
    ELSE LET paged == IF c.y < 1 * Inch
                      THEN [ShowPage(c) EXCEPT !.y = 10 * Inch]
                      ELSE c
             drawn == [paged EXCEPT !.ops = Append(@,
                          [op |-> "drawString", page |-> paged.page, x |-> 1 * Inch,
                           y |-> paged.y, line |-> Head(lines),
                           via |-> "add_text_with_new_page"])]
         IN  AddLines([drawn EXCEPT !.y = @ - (2 * Inch) \div 10], Tail(lines))

\* y_position = add_text_with_new_page(text, y_position)
AddTextWithNewPage(c, t) == AddLines(c, SplitText(t))

\* add_text_with_new_page for each text of a list in turn: the first half
\* of the list, then, no exception being up, the second half.
RECURSIVE AddTexts(_, _)
AddTexts(c, texts) ==
    IF texts = <<>> THEN c
    ELSE IF Len(texts) = 1 THEN AddTextWithNewPage(c, texts[1])
    ELSE LET half == Len(texts) \div 2
             first == AddTexts(c, SubSeq(texts, 1, half))
         IN  IF first.raised # None THEN first
             ELSE AddTexts(first, SubSeq(texts, half + 1, Len(texts)))

\* The texts generate_report passes to add_text_with_new_page, in order.
ProseTexts(a) ==
    << Text("Strengths:"),
       SkillsMentioned(a.strengths.skills),
       EducationLine(a.strengths.education_level),
       Text("Weaknesses:"),
       MissingLine(a.best_profile, a.missing_skills),
       Text("Profile Scores (Skill Matches):") >>
    \o ScoreLines(a.profile_scores)
    \o << Text("Recommendations:") >>
    \o (IF a.missing_skills # <<>>
        THEN << Text("- To improve your profile as a " \o Format(a.best_profile)
                     \o ", consider gaining skills in: "),
                Text(Join(a.missing_skills, ", ") \o ".") >>
        ELSE << Text("- No additional skills are missing for your suggested profile!") >>)
    \o << Text("- Continue building expertise in areas related to your suggested profile to improve competitiveness.") >>

\* The canvas after the prose of the report.
Prose(a) ==
    LET header == DrawString(NewCanvas, 1 * Inch, 10 * Inch, Text("Resume Analysis Report"))
        rule == DrawString(header, 1 * Inch, header.y - (5 * Inch) \div 10,
                           Text(Repeat("=", 25)))
        summary == DrawString(rule, 1 * Inch, header.y - 2 * ((5 * Inch) \div 10),
                              Text("Suggested Job Profile: " \o Format(a.best_profile)))
    IN  AddTexts([summary EXCEPT !.y = header.y - 3 * ((5 * Inch) \div 10)], ProseTexts(a))

\* c.drawImage(path, x, y, ...): the file is opened and read; a path that
\* does not exist raises OSError.  Nothing is drawn once an exception is up.
DrawImage(c, fs, path, x, y) ==
    IF c.raised # None THEN c
    ELSE IF path \in DOMAIN fs
    THEN [c EXCEPT !.ops = Append(@, [op |-> "drawImage", page |-> c.page,
                                      x |-> x, y |-> y, path |-> path, image |-> fs[path]])]
    ELSE [c EXCEPT !.raised = [type |-> "OSError", path |-> path]]

\* y_position -= 2.8 * inch, the page check and the caption under an image.
Caption(c, line) ==
    IF c.raised # None THEN c
    ELSE LET lowered == [c EXCEPT !.y = @ - (28 * Inch) \div 10]
             paged == IF lowered.y < 1 * Inch
                      THEN [ShowPage(lowered) EXCEPT !.y = 10 * Inch]
                      ELSE lowered
             drawn == DrawString(paged, 1 * Inch, paged.y, Text(line))
         IN  [drawn EXCEPT !.y = @ - (5 * Inch) \div 10]

\* The canvas after the page of visualizations, the disk being fs.
Visualizations(c, fs, dir) ==
    LET page == DrawString(ShowPage(c), 1 * Inch, 10 * Inch, Text("Visualizations"))
        c1 == DrawImage([page EXCEPT !.y = (95 * Inch) \div 10], fs, PathJoin(dir, SkillsPng),
                        1 * Inch, (95 * Inch) \div 10 - 2 * Inch)
        c2 == Caption(c1, "Skills Visualization")
        c3 == DrawImage(c2, fs, PathJoin(dir, ProfileMatchPng), 1 * Inch, c2.y - 2 * Inch)
        c4 == Caption(c3, "Profile Match Visualization")
    IN  DrawImage(c4, fs, PathJoin(dir, SkillsAnalysisPng), 1 * Inch, c4.y - 2 * Inch)

\* The canvas generate_report ends with, saved or not.
PdfCanvas(a, fs, dir) == Visualizations(Prose(a), fs, dir)

\* The disk after generate_report: c.save() writes the file, unless an
\* exception ended the function before it.
SavedReport(fs, dir, run, c) ==
    IF c.raised = None
    THEN WriteFile(fs, PathJoin(dir, ReportPdf), [by |-> run, data |-> c.ops])
    ELSE fs

-----------------------------------------------------------------------------
(* The run: module load, then main.                                        *)

\* The run this model follows step by step.
ThisRun == "run"

\* No second run, or one that has not begun.
Idle == [pc |-> "idle",
         analysis |-> Analysis(NoEntities, NoStrengths, <<>>, None, <<>>),
         report |-> <<>>]

\* Before main: nothing analysed, the disk empty (resume_analysis_output is
\* made by main), no report begun, no second run.
Fresh ==
    /\ sents = <<>>
    /\ text = ""
    /\ entities = NoEntities
    /\ candidate_skills = {}
    /\ best_profile = None
    /\ profile_scores = <<>>
    /\ missing_skills = <<>>
    /\ strengths = NoStrengths
    /\ lookups = <<>>
    /\ files = NoFiles
    /\ report = <<>>
    /\ other = Idle

Init ==
    /\ pc = "load"
    /\ version = "ver5"
    /\ definitions = ShippedDefinitions
    /\ job_profiles = <<>>
    /\ Fresh

\* job_profiles = {...} at module level.
DefineJobProfiles ==
    /\ pc = "load"
    /\ job_profiles' = DictLiteral(definitions)
    /\ pc' = "main"
    /\ UNCHANGED <<definitions, sents, text, entities, candidate_skills,
                   best_profile, profile_scores, missing_skills,
                   version, strengths, lookups, files, report, other>>

\* text = extract_text_from_pdf(pdf_path), the document one of docs.
ReadText(docs) ==
    /\ pc = "main"
    /\ \E doc \in docs : text' = JoinText(doc)
    /\ pc' = "analyze_resume"
    /\ UNCHANGED <<definitions, job_profiles, sents, entities, candidate_skills,
                   best_profile, profile_scores, missing_skills,
                   version, strengths, lookups, files, report, other>>

ExtractTextFromPdf == ReadText(Documents)

\* entities = extract_entities(text)
ExtractEntities ==
    /\ pc = "analyze_resume"
    /\ version \in {"ver2", "ver5"}
    /\ \E doc \in Segmentations(text) :
         LET classified == ClassifySentences(doc, NoEntities)
         IN  \E matched_skills \in ListOfSet(MatchedSkills(text, job_profiles)) :
                /\ sents' = doc
                /\ entities' = [classified EXCEPT !.skills = @ \o matched_skills]
    /\ pc' = "entities"
    /\ UNCHANGED <<definitions, job_profiles, text, candidate_skills,
                   best_profile, profile_scores, missing_skills,
                   version, strengths, lookups, files, report, other>>

\* DetectJobProfile of a scorer that consumes what it matches: the detected
\* skills a profile requires are taken out of the set it was passed.
DetectJobProfileConsuming ==
    /\ pc = "entities"
    /\ LET cs == {Lower(entities.skills[i]) : i \in 1..Len(entities.skills)}
           scores == ProfileScores(job_profiles, cs)
       IN  /\ candidate_skills' = cs \ AllSkills(job_profiles)
           /\ profile_scores' = scores
           /\ best_profile' = BestProfile(scores)
    /\ pc' = "detected"
    /\ UNCHANGED <<definitions, job_profiles, sents, text, entities, missing_skills,
                   version, strengths, lookups, files, report, other>>

\* candidate_skills = set(...); best_profile, profile_scores = detect_job_profile(...)
DetectJobProfile ==
    /\ pc = "entities"
    /\ LET cs == {Lower(entities.skills[i]) : i \in 1..Len(entities.skills)}
           scores == ProfileScores(job_profiles, cs)
       IN  /\ candidate_skills' = cs
           /\ profile_scores' = scores
           /\ best_profile' = BestProfile(scores)
    /\ pc' = "detected"
    /\ UNCHANGED <<definitions, job_profiles, sents, text, entities, missing_skills,
                   version, strengths, lookups, files, report, other>>

\* AnalyzeResume with job_profiles.pop(best_profile, []) in place of get: the
\* best profile is taken out of the catalog.
AnalyzeResumePopping ==
    /\ pc = "detected"
    /\ lookups' = Append(lookups, best_profile)
    /\ missing_skills' = MissingSkills(DictGet(job_profiles, best_profile, <<>>),
                                       candidate_skills)
    /\ job_profiles' = SelectSeq(job_profiles, LAMBDA e : Str(e.key) # best_profile)
    /\ strengths' = Strengths(candidate_skills, entities.education)
    /\ pc' = "analyzed"
    /\ UNCHANGED <<definitions, sents, text, entities,
                   candidate_skills, best_profile, profile_scores,
                   version, files, report, other>>

\* required_skills = job_profiles.get(best_profile, []); missing_skills = [...];
\* strengths = {...}
AnalyzeResume ==
    /\ pc = "detected"
    /\ lookups' = Append(lookups, best_profile)
    /\ missing_skills' = MissingSkills(DictGet(job_profiles, best_profile, <<>>),
                                       candidate_skills)
    /\ strengths' = Strengths(candidate_skills, entities.education)
    /\ pc' = "analyzed"
    /\ UNCHANGED <<definitions, job_profiles, sents, text, entities,
                   candidate_skills, best_profile, profile_scores,
                   version, files, report, other>>

\* What analyze_resume returned to main.
Returned == Analysis(entities, strengths, missing_skills, best_profile, profile_scores)

\* save_visualizations(entities, strengths, weaknesses, best_profile,
\* profile_scores, output_dir)
SaveVisualizations ==
    /\ pc = "analyzed"
    /\ version = "ver5"
    /\ files' = SavedCharts(files, OutputDir, ThisRun, Returned)
    /\ pc' = "saved"
    /\ UNCHANGED <<definitions, job_profiles, sents, text, entities,
                   candidate_skills, best_profile, profile_scores, missing_skills,
                   version, strengths, lookups, report, other>>

\* generate_report(entities, strengths, weaknesses, best_profile,
\* profile_scores, output_dir): it returns, or an exception ends the run.
GenerateReport ==
    /\ pc = "saved"
    /\ version = "ver5"
    /\ LET c == PdfCanvas(Returned, files, OutputDir)
       IN  /\ report' = c
           /\ files' = SavedReport(files, OutputDir, ThisRun, c)
           /\ pc' = IF c.raised = None THEN "reported" ELSE "raised"
    /\ UNCHANGED <<definitions, job_profiles, sents, text, entities,
                   candidate_skills, best_profile, profile_scores, missing_skills,
                   version, strengths, lookups, other>>

Next ==
    \/ DefineJobProfiles
    \/ ExtractTextFromPdf
    \/ ExtractEntities
    \/ DetectJobProfile
    \/ AnalyzeResume
    \/ SaveVisualizations
    \/ GenerateReport

Spec == Init /\ [][Next]_vars

-----------------------------------------------------------------------------
(* The catalog build on any literal: the same run, the literal one of      *)
(* CatalogLiterals and the document of at most one sentence.               *)

InitBuild ==
    /\ pc = "load"
    /\ version = "ver5"
    /\ definitions \in CatalogLiterals
    /\ job_profiles = <<>>
    /\ Fresh

ShortDocuments == {doc \in Documents : Len(doc) <= 1}

ExtractShortText == ReadText(ShortDocuments)

NextBuild ==
    \/ DefineJobProfiles
    \/ ExtractShortText
    \/ ExtractEntities
    \/ DetectJobProfile
    \/ AnalyzeResume
    \/ SaveVisualizations
    \/ GenerateReport

SpecBuild == InitBuild /\ [][NextBuild]_vars

-----------------------------------------------------------------------------
(* src/ver2.py and src/ver3.py: the same catalog, text extraction, scorer  *)
(* and analyze_resume; ver3 classifies sentences without the test for      *)
(* "work"; both write the report as text, ver2 to the terminal and ver3 to *)
(* resume_analysis_report.txt.  A report text is the sequence of its       *)
(* lines.                                                                  *)

\* The if / elif of the sentence loop of ver3.
SentenceClassVer3(sent) ==
    LET sent_text == Lower(sent)
    IN  IF Contains(sent_text, "education") THEN "education"
        ELSE IF Contains(sent_text, "experience") THEN "experience"
        ELSE "none"

\* The sentence loop of ver3, from the first sentence on.
RECURSIVE ClassifySentencesVer3(_, _)
ClassifySentencesVer3(ss, ent) ==
    IF ss = <<>> THEN ent
    ELSE LET sent == Head(ss)
             class == SentenceClassVer3(sent)
             next == IF class = "none" THEN ent
                     ELSE [ent EXCEPT ![class] = Append(@, Strip(sent))]
         IN  ClassifySentencesVer3(Tail(ss), next)

\* entities = extract_entities(text) of ver3
ExtractEntitiesVer3 ==
    /\ pc = "analyze_resume"
    /\ version = "ver3"
    /\ \E doc \in Segmentations(text) :
         LET classified == ClassifySentencesVer3(doc, NoEntities)
         IN  \E matched_skills \in ListOfSet(MatchedSkills(text, job_profiles)) :
                /\ sents' = doc
                /\ entities' = [classified EXCEPT !.skills = @ \o matched_skills]
    /\ pc' = "entities"
    /\ UNCHANGED <<definitions, job_profiles, text, candidate_skills,
                   best_profile, profile_scores, missing_skills,
                   version, strengths, lookups, files, report, other>>

\* job_description of ver3
JobDescription ==
    "\nWe are looking for a Software Developer with the following skills:\n"
    \o "- Proficiency in Python, Java, and SQL\n"
    \o "- Strong understanding of Data Structures and Algorithms\n"
    \o "- Experience with Git and version control\n"
    \o "- Familiarity with web technologies like HTML, CSS, and JavaScript\n"
    \o "- Knowledge of Machine Learning and data analysis\n"

\* The lines of a piece of report text that ends with a line break.
Lines(s) ==
    LET parts == Split(s)
    IN  [k \in 1..(Len(parts) - 1) |-> Text(parts[k])]

\* report = f"Resume Analysis Report\n"; report += f"{'='*25}\n\n"
HeaderLines == Lines("Resume Analysis Report\n") \o Lines(Repeat("=", 25) \o "\n\n")

\* report_content += f"Job Description:\n{job_description}\n\n"
JobDescriptionLines(job_description) ==
    Lines("Job Description:\n" \o job_description \o "\n\n")

\* The profile score section of the report text.
ProfileScoreLines(a) ==
    Lines("Profile Scores (Skill Matches):\n")
    \o ScoreLines(a.profile_scores)
    \o Lines("\n")

\* The report text from the profile summary to the recommendations, the
\* same in ver2 and ver3.
BodyLines(a) ==
    Lines("Suggested Job Profile: " \o Format(a.best_profile) \o "\n\n")
    \o Lines("Strengths:\n")
    \o << SkillsMentioned(a.strengths.skills) >>
    \o Lines(EducationLine(a.strengths.education_level).text \o "\n\n")
    \o Lines("Weaknesses:\n")
    \o Lines(MissingLine(a.best_profile, a.missing_skills).text \o "\n\n")
    \o ProfileScoreLines(a)
    \o Lines("Recommendations:\n")
    \o (IF a.missing_skills # <<>>
        THEN Lines("- To improve your profile as a " \o Format(a.best_profile)
                   \o ", consider gaining skills in: "
                   \o Join(a.missing_skills, ", ") \o ".\n")
        ELSE Lines("- No additional skills are missing for your suggested profile!\n"))
    \o Lines("- Continue building expertise in areas related to your suggested profile to improve competitiveness.\n")

\* The lines ver3 adds to report_content after the first write.
VisualizationLines ==
    Lines("\nVisualizations:\n")
    \o Lines("1. Skills Mentioned: skills_visualization.png\n")
    \o Lines("2. Profile Match: profile_match_visualization.png\n")
    \o Lines("3. Skills Analysis: skills_analysis_visualization.png\n")

\* open(path, "a") and a write: the lines go after what the file holds.
AppendFile(fs, path, run, lines) ==
    IF path \in DOMAIN fs
    THEN [fs EXCEPT ![path] = [by |-> run, data |-> fs[path].data \o lines]]
    ELSE WriteFile(fs, path, [by |-> run, data |-> lines])

\* visualize_resume of ver2: the charts are shown, nothing is kept.
VisualizeResume ==
    /\ pc = "analyzed"
    /\ version = "ver2"
    /\ pc' = "saved"
    /\ UNCHANGED <<definitions, job_profiles, sents, text, entities,
                   candidate_skills, best_profile, profile_scores, missing_skills,
                   version, strengths, lookups, files, report, other>>

\* generate_report of ver2: the report text is built and printed.
GenerateReportVer2 ==
    /\ pc = "saved"
    /\ version = "ver2"
    /\ report' = HeaderLines \o BodyLines(Returned)
    /\ pc' = "reported"
    /\ UNCHANGED <<definitions, job_profiles, sents, text, entities,
                   candidate_skills, best_profile, profile_scores, missing_skills,
                   version, strengths, lookups, files, other>>

\* save_visualization of ver3: the charts go to the working directory.
SaveVisualization ==
    /\ pc = "analyzed"
    /\ version = "ver3"
    /\ files' = SavedCharts(files, "", ThisRun, Returned)
    /\ pc' = "saved"
    /\ UNCHANGED <<definitions, job_profiles, sents, text, entities,
                   candidate_skills, best_profile, profile_scores, missing_skills,
                   version, strengths, lookups, report, other>>

\* generate_report of ver3: report_content is written to the file, the list
\* of visualizations is added to report_content, and report_content is
\* written to the file again in append mode.
GenerateReportVer3 ==
    /\ pc = "saved"
    /\ version = "ver3"
    /\ LET report_content == HeaderLines \o JobDescriptionLines(JobDescription)
                             \o BodyLines(Returned)
           written == WriteFile(files, ReportTxt, [by |-> ThisRun, data |-> report_content])
           updated == report_content \o VisualizationLines
       IN  /\ report' = updated
           /\ files' = AppendFile(written, ReportTxt, ThisRun, updated)
    /\ pc' = "reported"
    /\ UNCHANGED <<definitions, job_profiles, sents, text, entities,
                   candidate_skills, best_profile, profile_scores, missing_skills,
                   version, strengths, lookups, other>>

\* The run of any of the three scripts, on a document of at most one
\* sentence.
InitReports ==
    /\ pc = "load"
    /\ version \in {"ver2", "ver3", "ver5"}
    /\ definitions = ShippedDefinitions
    /\ job_profiles = <<>>
    /\ Fresh

NextReports ==
    \/ DefineJobProfiles
    \/ ExtractShortText
    \/ ExtractEntities
    \/ ExtractEntitiesVer3
    \/ DetectJobProfile
    \/ AnalyzeResume
    \/ SaveVisualizations
    \/ GenerateReport
    \/ VisualizeResume
    \/ GenerateReportVer2
    \/ SaveVisualization
    \/ GenerateReportVer3

SpecReports == InitReports /\ [][NextReports]_vars

-----------------------------------------------------------------------------
(* Reports for catalogs of any size.  The two writers of main run on what  *)
(* analyze_resume returns for a catalog of n profiles, each requiring the  *)
(* skills of required, and a document that names Python or names no skill. *)

\* The job_profiles literal with n profiles.
PagesCatalog(n, required) ==
    [i \in 1..n |-> Entry("Profile " \o ToString(i), required)]

\* The required-skill lists of the catalogs.
PagesRequired == {<<"Python">>, <<"Python", "Java">>}

\* The documents the reports are written for.
PagesDocuments == {<<>>, <<"skilled in C++ and Python">>}

\* What analyze_resume returns: a detected skill scores 1 for every
\* profile, the first profile is then the best one, and the required
\* skills not detected are missing.
PagesAnalysis(n, required, doc) ==
    LET found == ListOfSet(MatchedSkills(JoinText(doc), PagesCatalog(n, required)))
        ent == [ClassifySentences(doc, NoEntities) EXCEPT
                   !.skills = @ \o (CHOOSE q \in found : TRUE)]
        cs == {Lower(ent.skills[i]) : i \in 1..Len(ent.skills)}
        score == ProfileScore(required, cs)
        best == IF n > 0 /\ score # 0 THEN Str("Profile 1") ELSE None
    IN  Analysis(ent, Strengths(cs, ent.education),
                 IF best = None THEN <<>> ELSE MissingSkills(required, cs),
                 best,
                 [i \in 1..n |-> Entry("Profile " \o ToString(i), score)])

InitPages ==
    /\ pc = "analyzed"
    /\ version = "ver5"
    /\ \E n \in 0..MaxProfiles, required \in PagesRequired, doc \in PagesDocuments :
         LET a == PagesAnalysis(n, required, doc)
         IN  /\ definitions = PagesCatalog(n, required)
             /\ job_profiles = PagesCatalog(n, required)
             /\ sents = doc
             /\ text = JoinText(doc)
             /\ entities = a.entities
             /\ candidate_skills = a.strengths.skills
             /\ strengths = a.strengths
             /\ best_profile = a.best_profile
             /\ profile_scores = a.profile_scores
             /\ missing_skills = a.missing_skills
             /\ lookups = <<a.best_profile>>
    /\ files = NoFiles
    /\ report = <<>>
    /\ other = Idle

NextPages ==
    \/ SaveVisualizations
    \/ GenerateReport

SpecPages == InitPages /\ [][NextPages]_vars

-----------------------------------------------------------------------------
(* Two runs of main at once.  The second run is a process of its own: it   *)
(* has its own catalog and locals, kept in the record other, and the same  *)
(* working directory.  Its analysis touches nothing outside the process    *)
(* and is one step; its two writers are a step each.                       *)

\* The second run.
OtherRun == "other"

\* The second run's main up to analyze_resume, on a document of its own.
OtherAnalyzeResume ==
    /\ other.pc = "idle"
    /\ \E doc \in ShortDocuments :
         LET catalog == DictLiteral(definitions)
         IN  \E matched_skills \in ListOfSet(MatchedSkills(JoinText(doc), catalog)) :
                other' = [pc |-> "analyzed",
                          analysis |-> AnalyzeText(doc, matched_skills, catalog),
                          report |-> <<>>]
    /\ UNCHANGED <<pc, definitions, job_profiles, sents, text, entities,
                   candidate_skills, best_profile, profile_scores, missing_skills,
                   version, strengths, lookups, files, report>>

\* The second run's save_visualizations.
OtherSaveVisualizations ==
    /\ other.pc = "analyzed"
    /\ files' = SavedCharts(files, OutputDir, OtherRun, other.analysis)
    /\ other' = [other EXCEPT !.pc = "saved"]
    /\ UNCHANGED <<pc, definitions, job_profiles, sents, text, entities,
                   candidate_skills, best_profile, profile_scores, missing_skills,
                   version, strengths, lookups, report>>

\* The second run's generate_report.
OtherGenerateReport ==
    /\ other.pc = "saved"
    /\ LET c == PdfCanvas(other.analysis, files, OutputDir)
       IN  /\ other' = [other EXCEPT !.report = c,
                                     !.pc = IF c.raised = None THEN "reported" ELSE "raised"]
           /\ files' = SavedReport(files, OutputDir, OtherRun, c)
    /\ UNCHANGED <<pc, definitions, job_profiles, sents, text, entities,
                   candidate_skills, best_profile, profile_scores, missing_skills,
                   version, strengths, lookups, report>>

NextConcurrent ==
    \/ DefineJobProfiles
    \/ ExtractShortText
    \/ ExtractEntities
    \/ DetectJobProfile
    \/ AnalyzeResume
    \/ SaveVisualizations
    \/ GenerateReport
    \/ OtherAnalyzeResume
    \/ OtherSaveVisualizations
    \/ OtherGenerateReport

SpecConcurrent == Init /\ [][NextConcurrent]_vars

-----------------------------------------------------------------------------
(* Properties of scoring.                                                  *)

Scored == pc \in {"detected", "analyzed"}

\* The number of elements of idx up to j: the place of element j of a list
\* among those of its elements that a filter keeps.
Rank(idx, j) == Cardinality({k \in idx : k <= j})

\* q is the list p filtered to the positions idx, in the order of p.
IsFiltered(q, p, idx) ==
    /\ Len(q) = Cardinality(idx)
    /\ \A j \in idx : q[Rank(idx, j)] = p[j]

\* The position of a profile name in the catalog.
ProfileIndex(name) == CHOOSE i \in 1..Len(job_profiles) : job_profiles[i].key = name

\* The positions of the profiles with the greatest score.
TopScored ==
    {i \in 1..Len(profile_scores) :
        \A j \in 1..Len(profile_scores) : profile_scores[j].value <= profile_scores[i].value}

\* C1: profile_scores has exactly one entry per catalog profile, zero scores
\* included, in catalog declaration order, and every score is an integer
\* between 0 and the number of required skills of its profile.
C1_ScoreboardShape ==
    Scored =>
        /\ Len(profile_scores) = Len(job_profiles)
        /\ \A i \in 1..Len(job_profiles) :
              /\ profile_scores[i].key = job_profiles[i].key
              /\ profile_scores[i].value \in 0..Len(job_profiles[i].value)
        /\ \A i, j \in 1..Len(profile_scores) :
              profile_scores[i].key = profile_scores[j].key => i = j

\* C1 witness: a scoreboard that holds zero and non-zero scores.
C1_Witness ==
    /\ Scored
    /\ \E i, j \in 1..Len(profile_scores) :
          profile_scores[i].value = 0 /\ profile_scores[j].value > 0

\* C2: the score of a profile is the number of entries of its required-skill
\* list whose lower-cased form is in the detected-skill set.
C2_ScoreIsMatchCount ==
    Scored =>
        \A i \in 1..Len(job_profiles) :
            LET required == job_profiles[i].value
            IN  DictAt(profile_scores, job_profiles[i].key) =
                    Cardinality({j \in 1..Len(required) : Lower(required[j]) \in candidate_skills})

\* C2 witness: a profile with two of its required skills detected, in a
\* casing other than the catalog's, and others not.
C2_Witness ==
    /\ Scored
    /\ \E i \in 1..Len(job_profiles) :
          /\ profile_scores[i].value = 2
          /\ \E s \in Range(job_profiles[i].value) : s \notin candidate_skills /\ Lower(s) \in candidate_skills

\* C3: when some profile scores above 0, no profile scores more than the best
\* profile and every profile declared before it scores strictly less, for every
\* order in which the detected skills were listed.
C3_FirstDeclaredMaximum ==
    (Scored /\ \E i \in 1..Len(profile_scores) : profile_scores[i].value > 0) =>
        /\ best_profile.type = "str"
        /\ HasKey(job_profiles, best_profile.value)
        /\ LET b == ProfileIndex(best_profile.value)
           IN  /\ \A j \in 1..Len(profile_scores) :
                     profile_scores[j].value <= profile_scores[b].value
               /\ \A j \in 1..(b - 1) :
                     profile_scores[j].value < profile_scores[b].value

\* C3 witness: two profiles tie for the greatest score, above 0, and the
\* detected skills were listed in an order that is not the sorted one.
C3_Witness ==
    /\ Scored
    /\ Cardinality(TopScored) >= 2
    /\ \E i \in TopScored : profile_scores[i].value > 0
    /\ best_profile = Str(job_profiles[CHOOSE i \in TopScored : \A j \in TopScored : i <= j].key)
    /\ Len(entities.skills) >= 2
    /\ \E i \in 1..(Len(entities.skills) - 1) :
          entities.skills[i] = "python" /\ entities.skills[i + 1] = "java"

\* C4: if no required skill of any profile is detected, every score is 0, the
\* best profile is None, which names no catalog profile, and the missing-skill
\* list is empty; if some score is above 0 the best profile is a catalog
\* profile name.
C4_NoMatchSentinel ==
    Scored =>
        LET nothing == \A i \in 1..Len(job_profiles) :
                          \A s \in Range(job_profiles[i].value) : Lower(s) \notin candidate_skills
            zeros == \A i \in 1..Len(profile_scores) : profile_scores[i].value = 0
        IN  /\ nothing => zeros
            /\ zeros => /\ best_profile = None
                        /\ \A i \in 1..Len(job_profiles) : Str(job_profiles[i].key) # best_profile
                        /\ pc = "analyzed" => missing_skills = <<>>
            /\ ~zeros => /\ best_profile # None
                         /\ \E i \in 1..Len(job_profiles) : Str(job_profiles[i].key) = best_profile

\* C4 witness: a document that is not empty, analysed, with no skill detected.
C4_Witness ==
    /\ pc = "analyzed"
    /\ text # ""
    /\ candidate_skills = {}
    /\ best_profile = None

\* C5: the missing-skill list is the required-skill list of the best profile
\* filtered to the skills whose lower-cased form is not detected, in catalog
\* order: it shares no skill with the detected ones and holds only required
\* skills of the best profile.
C5_MissingSkills ==
    pc = "analyzed" =>
        LET required == IF best_profile = None THEN <<>>
                        ELSE job_profiles[ProfileIndex(best_profile.value)].value
        IN  /\ IsFiltered(missing_skills, required,
                          {j \in 1..Len(required) : Lower(required[j]) \notin candidate_skills})
            /\ \A m \in Range(missing_skills) :
                  /\ Lower(m) \notin candidate_skills
                  /\ m \in Range(required)

\* C5 witness: a best profile with a required skill detected between two
\* missing ones.
C5_Witness ==
    /\ pc = "analyzed"
    /\ best_profile # None
    /\ LET required == job_profiles[ProfileIndex(best_profile.value)].value
       IN  \E i, j, k \in 1..Len(required) :
              /\ i < j /\ j < k
              /\ required[i] \in Range(missing_skills)
              /\ Lower(required[j]) \in candidate_skills
              /\ required[k] \in Range(missing_skills)

-----------------------------------------------------------------------------
(* Properties of extract_entities.                                         *)

Extracted == pc \in {"entities", "detected", "analyzed"}

HasNonWordChar(v) == \E c \in Chars(v) : ~IsWordChar(c)

\* w stands in t as a whole word: a run of word characters with no word
\* character next to it on either side.
IsWholeWord(t, w) ==
    /\ w # ""
    /\ ~HasNonWordChar(w)
    /\ \E i \in 1..(Len(t) - Len(w) + 1) :
          LET j == i + Len(w) - 1
          IN  /\ SubSeq(t, i, j) = w
              /\ i = 1 \/ ~IsWordChar(SubSeq(t, i - 1, i - 1))
              /\ j = Len(t) \/ ~IsWordChar(SubSeq(t, j + 1, j + 1))

\* C6: a vocabulary skill with a non-word character is detected whenever the
\* raw text contains it as a case-insensitive substring.
C6_SubstringFallback ==
    Extracted =>
        LET low == Lower(text)
            detected == Range(entities.skills)
        IN  \A v \in AllSkills(job_profiles) :
                (HasNonWordChar(v) /\ Contains(low, v)) => v \in detected

\* C7: the detected skills are the vocabulary skills that stand in the
\* lower-cased text as whole words: no duplicates, only vocabulary skills, and
\* none that is only part of a longer word.
C7_WholeWordIntersection ==
    Extracted =>
        LET low == Lower(text)
            detected == Range(entities.skills)
            vocabulary == AllSkills(job_profiles)
        IN  /\ Len(entities.skills) = Cardinality(detected)
            /\ detected \subseteq vocabulary
            /\ \A v \in vocabulary : v \in detected <=> IsWholeWord(low, v)

\* C7 witness: a text with the word JavaScript and no word Java; javascript is
\* detected and java is not.
C7_Witness ==
    /\ Extracted
    /\ Contains(text, "JavaScript")
    /\ "javascript" \in Range(entities.skills)
    /\ "java" \notin Range(entities.skills)

\* sent.text.strip() of every sentence.
Stripped(ss) == [i \in 1..Len(ss) |-> Strip(ss[i])]

\* The sentences whose lower-cased text contains one of the keywords.
SentencesWith(ss, keywords) ==
    {i \in 1..Len(ss) : \E k \in keywords : Contains(Lower(ss[i]), k)}

\* C8: a sentence goes to at most one list and education is tested first: the
\* education list is the stripped sentences that contain "education", in
\* document order and original casing, none of them is in the experience
\* list, and the experience list is taken in document order from the others.
C8_EducationFirst ==
    Extracted =>
        LET stripped == Stripped(sents)
            edu == SentencesWith(sents, {"education"})
        IN  /\ IsFiltered(entities.education, stripped, edu)
            /\ \A i \in edu : stripped[i] \notin Range(entities.experience)
            /\ \E idx \in SUBSET (1..Len(sents) \ edu) :
                  IsFiltered(entities.experience, stripped, idx)
            /\ Len(entities.education) + Len(entities.experience) <= Len(sents)

\* C8 witness: the one-sentence text "I have experience in education systems."
\* is in the education list only.
C8_Witness ==
    /\ Extracted
    /\ text = "I have experience in education systems."
    /\ entities.education = <<text>>
    /\ entities.experience = <<>>

\* C9: a sentence without "education" is in the experience list if and only
\* if it contains "experience" or "work"; a sentence with none of the three is
\* in neither list.
C9_ExperienceOrWork ==
    Extracted =>
        LET stripped == Stripped(sents)
            edu == SentencesWith(sents, {"education"})
            exp == SentencesWith(sents, {"experience", "work"}) \ edu
        IN  /\ IsFiltered(entities.experience, stripped, exp)
            /\ \A i \in 1..Len(sents) :
                  i \notin edu \cup exp =>
                      stripped[i] \notin Range(entities.education) \cup Range(entities.experience)
            /\ Len(entities.education) + Len(entities.experience) = Cardinality(edu \cup exp)

\* C9 witness: a sentence with "work" only inside a longer word is in the
\* experience list and a sentence with no keyword is in neither list.
C9_Witness ==
    /\ Extracted
    /\ sents = <<"Networking basics", "Built JavaScript apps">>
    /\ entities.experience = <<"Networking basics">>
    /\ entities.education = <<>>

-----------------------------------------------------------------------------
(* Properties of the catalog build.                                        *)

\* The literal repeats a name or holds an empty required-skill list.
Malformed(defs) ==
    \/ \E i, j \in 1..Len(defs) : i # j /\ defs[i].key = defs[j].key
    \/ \E i \in 1..Len(defs) : defs[i].value = <<>>

UniqueNames(catalog) ==
    \A i, j \in 1..Len(catalog) : catalog[i].key = catalog[j].key => i = j

-----------------------------------------------------------------------------
(* Properties of the charts and the report.                                *)

\* main has ended: generate_report returned or an exception ended the run.
Ended == pc \in {"reported", "raised"}

AllScoresZero == \A i \in 1..Len(profile_scores) : profile_scores[i].value = 0

\* C11: for an empty document text the run of main, through analysis,
\* visualization and report generation, ends without raising an error, with
\* empty education and experience lists, an empty detected set, every score
\* 0, the sentinel as best profile and an empty missing list.
C11_EmptyTextCompletes ==
    (text = "" /\ Ended) =>
        /\ pc = "reported"
        /\ entities = NoEntities
        /\ candidate_skills = {}
        /\ AllScoresZero
        /\ best_profile = None
        /\ missing_skills = <<>>

\* analyze_resume has returned.
Analyzed == pc \in {"analyzed", "saved", "reported", "raised"}

\* The lines drawn on the canvas of generate_report so far.
DrawnLines ==
    IF report = <<>> THEN <<>>
    ELSE SelectSeq(report.ops, LAMBDA o : o.op = "drawString")

\* C12: when the best profile is the sentinel, no step after scoring uses
\* the sentinel as the key of a look-up of a required-skill list in the
\* catalog, and none presents the sentinel as if it were a profile name.
C12_SentinelKeptApart ==
    (Analyzed /\ best_profile = None) =>
        /\ \A i \in 1..Len(lookups) : lookups[i] # None
        /\ \A i \in 1..Len(DrawnLines) :
              /\ DrawnLines[i].line.text # "Suggested Job Profile: None"
              /\ ~Contains(DrawnLines[i].line.text, "for None Profile")

-----------------------------------------------------------------------------
(* Properties of the scorer as a function.                                 *)

-----------------------------------------------------------------------------
(* Frame of classification, detection and scoring.                         *)

\* The set analyze_resume passes to the scorer.
PassedSkills == {Lower(entities.skills[i]) : i \in 1..Len(entities.skills)}

\* C16: sentence classification, skill detection and scoring leave the
\* catalog and their inputs unchanged: once built the catalog never changes,
\* extract_entities leaves the text as it was, the scorer leaves the
\* detected-skill set it was passed and the entities as they were, and the
\* missing-list step changes none of them either.
C16_InputsUnchanged ==
    [][ /\ pc # "load" => (job_profiles' = job_profiles /\ definitions' = definitions)
        /\ pc = "analyze_resume" => text' = text
        /\ pc = "entities" =>
              (text' = text /\ entities' = entities /\ candidate_skills' = PassedSkills)
        /\ pc = "detected" =>
              (text' = text /\ entities' = entities
               /\ candidate_skills' = candidate_skills
               /\ best_profile' = best_profile /\ profile_scores' = profile_scores)
      ]_vars

\* The scorer and the missing-list step have run on a set of two or more
\* detected skills, with a profile found.
C16_Witness ==
    /\ pc = "analyzed"
    /\ Cardinality(candidate_skills) >= 2
    /\ best_profile # None
    /\ missing_skills # <<>>

-----------------------------------------------------------------------------
(* Properties of two runs at once.                                         *)

\* The images a canvas embeds.
Embedded(c) ==
    IF c = <<>> THEN {}
    ELSE {c.ops[i].image : i \in {k \in 1..Len(c.ops) : c.ops[k].op = "drawImage"}}

\* C14: two runs at once share no mutable state: under every interleaving
\* no run overwrites a file the other run wrote, and the report of a run
\* embeds only charts that this run wrote.
C14_RunsIndependent ==
    [][ /\ \A path \in DOMAIN files : files'[path].by = files[path].by
        /\ \A image \in Embedded(report') : image.by = ThisRun
        /\ \A image \in Embedded(other'.report) : image.by = OtherRun
      ]_vars

-----------------------------------------------------------------------------
(* Properties of the images of the report.                                 *)

\* The image files a canvas has opened: those it embeds and the one whose
\* opening raised.
OpenedImages(c) ==
    IF c = <<>> THEN {}
    ELSE {c.ops[i].path : i \in {k \in 1..Len(c.ops) : c.ops[k].op = "drawImage"}}
         \cup (IF c.raised = None THEN {} ELSE {c.raised.path})

\* C17: in a run of main every image file that generate_report opens to
\* embed it was written by save_visualizations earlier in the same run, also
\* when no skill is detected or no profile scores above 0.
C17_EmbedsOwnImages ==
    Ended =>
        \A path \in OpenedImages(report) :
            path \in DOMAIN files /\ files[path].by = ThisRun

-----------------------------------------------------------------------------
(* Scores and missing skills together.                                     *)

\* C18: whenever the best profile is a real profile, its score plus the
\* length of the missing list equals the length of its required-skill list.
C18_ScorePlusMissing ==
    (Analyzed /\ best_profile # None) =>
        DictAt(profile_scores, best_profile.value) + Len(missing_skills)
            = Len(DictAt(job_profiles, best_profile.value))

\* A profile is found with two or more of its skills detected and others
\* missing.
C18_Witness ==
    /\ Analyzed
    /\ best_profile # None
    /\ DictAt(profile_scores, best_profile.value) >= 2
    /\ Len(missing_skills) >= 1

-----------------------------------------------------------------------------
(* Properties of the report text.                                          *)

\* s begins with prefix.
StartsWith(s, prefix) ==
    Len(s) >= Len(prefix) /\ SubSeq(s, 1, Len(prefix)) = prefix

\* The first lines of the sections of the report of ver3, in their order.
SectionHeads ==
    << "Resume Analysis Report", "Job Description:", "Suggested Job Profile: ",
       "Strengths:", "Weaknesses:", "Profile Scores (Skill Matches):",
       "Recommendations:", "Visualizations:" >>

\* The places of the lines of a text that begin with head.
Places(lines, head) == {i \in 1..Len(lines) : StartsWith(lines[i].text, head)}

\* C19: after generate_report of ver3 has returned, the file
\* resume_analysis_report.txt holds each section of the report (header, job
\* description, suggested profile, strengths, weaknesses, profile scores,
\* recommendations) exactly once, and after them the list of
\* visualizations exactly once.
C19_EachSectionOnce ==
    (version = "ver3" /\ pc = "reported") =>
        /\ ReportTxt \in DOMAIN files
        /\ LET lines == files[ReportTxt].data
           IN  /\ \A k \in 1..Len(SectionHeads) :
                      Cardinality(Places(lines, SectionHeads[k])) = 1
               /\ \A k \in 1..(Len(SectionHeads) - 1) :
                      \A i \in Places(lines, SectionHeads[k]) :
                          \A j \in Places(lines, SectionHeads[k + 1]) : i < j

\* The text of every line the report holds, in order, blank lines left out.
ReportLineTexts ==
    LET texts == IF version = "ver5"
                 THEN [i \in 1..Len(DrawnLines) |-> DrawnLines[i].line.text]
                 ELSE [i \in 1..Len(report) |-> report[i].text]
    IN  SelectSeq(texts, LAMBDA t : t # "")

\* The lines of the prose: those before the visualizations.
ProseLineTexts ==
    LET texts == ReportLineTexts
        after == {i \in 1..Len(texts) : texts[i] \in {"Visualizations", "Visualizations:"}}
    IN  IF after = {} THEN texts
        ELSE SubSeq(texts, 1, (CHOOSE i \in after : \A j \in after : i <= j) - 1)

\* The two lines of the header open the text.
HeaderFirst(texts) ==
    /\ Len(texts) >= 2
    /\ texts[1] = "Resume Analysis Report"
    /\ texts[2] = Repeat("=", 25)

\* From line first on the text is: suggested profile, strengths, weaknesses,
\* profile scores with one line per catalog profile in catalog order,
\* recommendations, and no section begins again after that.
SectionsFrom(texts, first) ==
    LET n == Len(job_profiles)
    IN  /\ Len(texts) > first + 7 + n
        /\ StartsWith(texts[first], "Suggested Job Profile: ")
        /\ texts[first + 1] = "Strengths:"
        /\ StartsWith(texts[first + 2], "- Skills Mentioned: ")
        /\ StartsWith(texts[first + 3], "- Education Level: ")
        /\ texts[first + 4] = "Weaknesses:"
        /\ StartsWith(texts[first + 5], "- Missing Skills for ")
        /\ texts[first + 6] = "Profile Scores (Skill Matches):"
        /\ \A i \in 1..n :
              StartsWith(texts[first + 6 + i], "- " \o job_profiles[i].key \o ": ")
        /\ texts[first + 7 + n] = "Recommendations:"
        /\ \A i \in (first + 8 + n)..Len(texts) :
              \A k \in 1..Len(SectionHeads) : ~StartsWith(texts[i], SectionHeads[k])

\* generate_report has put the prose together.
ReportBuilt == pc \in {"reported", "raised"}

\* C15 as claimed: the report presents header, suggested profile, strengths,
\* weaknesses, profile scores and recommendations in this order, nothing
\* between the header and the suggested profile, and the profile-score
\* lines in catalog order, one per catalog profile.
C15_NothingAfterHeader ==
    ReportBuilt =>
        LET texts == ProseLineTexts
        IN  HeaderFirst(texts) /\ SectionsFrom(texts, 3)

\* The lines of the job description section of ver3, blank lines left out.
JobDescriptionTexts ==
    LET lines == JobDescriptionLines(JobDescription)
    IN  SelectSeq([i \in 1..Len(lines) |-> lines[i].text], LAMBDA t : t # "")

\* C15, amended: the report presents header, suggested profile, strengths,
\* weaknesses, profile scores and recommendations in this order, and the
\* profile-score lines in catalog order, one per catalog profile; in ver2
\* and ver5 nothing stands between the header and the suggested profile, in
\* ver3 the job description section stands there and nothing else.
C15_FixedSequence ==
    ReportBuilt =>
        LET texts == ProseLineTexts
            k == Len(JobDescriptionTexts)
        IN  /\ HeaderFirst(texts)
            /\ IF version = "ver3"
               THEN /\ Len(texts) >= 2 + k
                    /\ SubSeq(texts, 3, 2 + k) = JobDescriptionTexts
                    /\ SectionsFrom(texts, 3 + k)
               ELSE SectionsFrom(texts, 3)

\* A report of ver3 is written for a document with a profile found and a
\* second profile with a score.
C15_Witness ==
    /\ version = "ver3"
    /\ pc = "reported"
    /\ best_profile # None
    /\ \E i, j \in 1..Len(profile_scores) :
          i < j /\ profile_scores[i].value > 0 /\ profile_scores[j].value > 0

-----------------------------------------------------------------------------
(* Properties of the pages of the report.                                  *)

\* The lines drawn through add_text_with_new_page, in the order drawn.
AddedLines ==
    IF report = <<>> THEN <<>>
    ELSE SelectSeq(report.ops, LAMBDA o :
             o.op = "drawString" /\ o.via = "add_text_with_new_page")

\* C20: every line drawn through add_text_with_new_page is drawn between 1
\* inch and 10 inches inclusive; the next line is drawn 0.2 inch lower on
\* the same page, unless that position is below 1 inch, and then on a new
\* page at 10 inches; for any number of profile-score lines.
C20_LinesOnThePage ==
    (version = "ver5" /\ ReportBuilt) =>
        LET added == AddedLines
        IN  /\ \A i \in 1..Len(added) :
                  1 * Inch <= added[i].y /\ added[i].y <= 10 * Inch
            /\ \A i \in 1..(Len(added) - 1) :
                  LET lower == added[i].y - (2 * Inch) \div 10
                  IN  IF lower < 1 * Inch
                      THEN added[i + 1].page = added[i].page + 1
                           /\ added[i + 1].y = 10 * Inch
                      ELSE added[i + 1].page = added[i].page
                           /\ added[i + 1].y = lower

\* A report with a line drawn at 1 inch exactly and lines on a second and
\* on a third page.
C20_Witness ==
    /\ version = "ver5"
    /\ ReportBuilt
    /\ \E i \in 1..Len(AddedLines) : AddedLines[i].y = 1 * Inch
    /\ \E i \in 1..Len(AddedLines) : AddedLines[i].page = 2 /\ AddedLines[i].y = 10 * Inch
    /\ \E i \in 1..Len(AddedLines) : AddedLines[i].page = 3

-----------------------------------------------------------------------------
(* Scoring in the detected skills.                                         *)

\* s is a sub-list of t: the elements of s occur in t in the same order.
RECURSIVE IsSubList(_, _)
IsSubList(s, t) ==
    IF s = <<>> THEN TRUE
    ELSE IF t = <<>> THEN FALSE
    ELSE IF Head(s) = Head(t) THEN IsSubList(Tail(s), Tail(t))
    ELSE IsSubList(s, Tail(t))

\* What detect_job_profile and analyze_resume find with the detected skills
\* smaller in the place of candidate_skills.
WithSkills(smaller) ==
    LET scores == ProfileScores(job_profiles, smaller)
        best == BestProfile(scores)
    IN  [profile_scores |-> scores, best_profile |-> best,
         missing_skills |-> MissingSkills(DictGet(job_profiles, best, <<>>), smaller)]

\* C21: with a detected-skill set that is a subset of candidate_skills no
\* profile scores more than with candidate_skills, and where the best
\* profile is the same with both, the missing skills found with
\* candidate_skills are a sub-list of those found with the subset.
C21_MonotoneInSkills ==
    Analyzed =>
        \A smaller \in SUBSET candidate_skills :
            LET less == WithSkills(smaller)
            IN  /\ \A i \in 1..Len(job_profiles) :
                      DictAt(less.profile_scores, job_profiles[i].key)
                          <= DictAt(profile_scores, job_profiles[i].key)
                /\ less.best_profile = best_profile =>
                      IsSubList(missing_skills, less.missing_skills)

\* candidate_skills has a subset with which a profile scores less, the best
\* profile is the same named profile and more of its skills are missing.
C21_Witness ==
    /\ Analyzed
    /\ best_profile # None
    /\ missing_skills # <<>>
    /\ \E smaller \in SUBSET candidate_skills :
          LET less == WithSkills(smaller)
          IN  /\ smaller # {}
              /\ less.best_profile = best_profile
              /\ Len(less.missing_skills) > Len(missing_skills)
              /\ DictAt(less.profile_scores, best_profile.value)
                    < DictAt(profile_scores, best_profile.value)

====
